---- MODULE Spec2Model ----
(***************************************************************************)
(* Resource Allocation Graph simulator (rag_simulator.c): the RAG store,   *)
(* the Wait-For Graph builder and the DFS cycle detector.                  *)
(*                                                                         *)
(* The C globals are the variables.  Every menu handler is one action; the *)
(* values read_int / read_string can hand back are the action's inputs.    *)
(* `out` holds what the last handler printed: which handler ran, the       *)
(* indices it read, the message it ended with, the owner named in the      *)
(* override warning and the printed cycle.                                 *)
(***************************************************************************)
EXTENDS Integers, Sequences, FiniteSets, TLC

(* Array capacities.  The source sets both to 20; the model scales them to *)
(* the smallest values that hold the sample graph (3 processes, 2          *)
(* resources), so that a full table is reachable.                          *)
MAX_PROC == 3
MAX_RES == 2
NAMELEN == 32

Procs == 0 .. MAX_PROC - 1
Ress == 0 .. MAX_RES - 1

VARIABLES n_proc, n_res, req, alloc_, P, R,
          wfg, visited, in_stack, stack_nodes, stack_top, run, out

store == <<n_proc, n_res, req, alloc_, P, R>>
detector == <<wfg, visited, in_stack, stack_nodes, stack_top, run>>
vars == <<n_proc, n_res, req, alloc_, P, R,
          wfg, visited, in_stack, stack_nodes, stack_top, run, out>>

(* ---- names and input ---- *)

(* A name is a sequence of characters; the zeroed buffer is the empty one. *)
EmptyName == << >>

Min(a, b) == IF a < b THEN a ELSE b

(* A line of NAMELEN 'x' characters followed by c: longer than the buffer. *)
LongLine(c) == [i \in 1 .. NAMELEN |-> "x"] \o <<c>>

(* The lines typed at a name prompt (without the newline). *)
Lines == { EmptyName, <<"P", "0">>, LongLine("a"), LongLine("b") }

(* fgets(buf, bufsz) keeps at most bufsz-1 characters of the line, and the *)
(* newline, if it was read, is stripped.                                   *)
read_string(line, bufsz) == SubSeq(line, 1, Min(Len(line), bufsz - 1))

(* strncpy(dst, name, NAMELEN-1); dst[NAMELEN-1] = '\0'                    *)
strncpy(name, n) == SubSeq(name, 1, Min(Len(name), n))

(* read_int loops until a value in minv..maxv is typed.                    *)
read_int(minv, maxv) == minv .. maxv

ZeroReq == [p \in Procs |-> [r \in Ress |-> 0]]
ZeroAlloc == [r \in Ress |-> [p \in Procs |-> 0]]
ZeroP == [p \in Procs |-> EmptyName]
ZeroR == [r \in Ress |-> EmptyName]
ZeroWfg == [p \in Procs |-> [q \in Procs |-> 0]]
ZeroFlags == [p \in Procs |-> 0]

NoCycle == << >>

(* No detection run in progress.  `run` is the position of a run:  pc is   *)
(* "idle", "roots" (in the root loop of detect_deadlock) or "dfs" (in the  *)
(* loop of the dfs_cycle call on top of the stack), i is the root loop's   *)
(* index and v[k] the loop index of the dfs_cycle call at stack depth k.   *)
NoRun == [pc |-> "idle", i |-> 0, v |-> ZeroFlags]

(* What a handler printed. *)
Output(op, a, b, result, superseded, cycle) ==
    [op |-> op, a |-> a, b |-> b, result |-> result,
     superseded |-> superseded, cycle |-> cycle]

Said(op, result) == Output(op, -1, -1, result, {}, NoCycle)

Init ==
    /\ n_proc = 0
    /\ n_res = 0
    /\ req = ZeroReq
    /\ alloc_ = ZeroAlloc
    /\ P = ZeroP
    /\ R = ZeroR
    /\ wfg = ZeroWfg
    /\ visited = ZeroFlags
    /\ in_stack = ZeroFlags
    /\ stack_nodes = ZeroFlags
    /\ stack_top = 0
    /\ run = NoRun
    /\ out = Said("main", "Ok")

(* ---- RAG store ---- *)

(* The duplicate scan of add_process / add_resource: strcmp over the live  *)
(* entries of the table.                                                   *)
(* The scan starting at entry 1 instead of 0. *)
NameTakenAfterFirst(table, n, name) == \E i \in 1 .. n - 1 : table[i] = name

NameTaken(table, n, name) == \E i \in 0 .. n - 1 : table[i] = name

ClearReqRow(q, p) == [q EXCEPT ![p] = [r \in Ress |-> 0]]

ClearAllocRow(a, r) == [a EXCEPT ![r] = [p \in Procs |-> 0]]

(* add_process testing n_proc > MAX_PROC: one entry too many is accepted. *)
AddProcessOffByOne(line) ==
    /\ UNCHANGED <<n_res, alloc_, R, detector>>
    /\ IF n_proc > MAX_PROC
       THEN /\ out' = Said("add_process", "CapacityExceeded")
            /\ UNCHANGED <<n_proc, req, P>>
       ELSE LET name == read_string(line, NAMELEN) IN
            IF Len(name) = 0
            THEN /\ out' = Said("add_process", "EmptyName")
                 /\ UNCHANGED <<n_proc, req, P>>
            ELSE IF NameTaken(P, n_proc, name)
            THEN /\ out' = Said("add_process", "DuplicateName")
                 /\ UNCHANGED <<n_proc, req, P>>
            ELSE /\ P' = [P EXCEPT ![n_proc] = strncpy(name, NAMELEN - 1)]
                 /\ req' = ClearReqRow(req, n_proc)
                 /\ n_proc' = n_proc + 1
                 /\ out' = Output("add_process", n_proc, -1, "Ok", {}, NoCycle)

AddProcess(line) ==
    /\ UNCHANGED <<n_res, alloc_, R, detector>>
    /\ IF n_proc >= MAX_PROC
       THEN /\ out' = Said("add_process", "CapacityExceeded")
            /\ UNCHANGED <<n_proc, req, P>>
       ELSE LET name == read_string(line, NAMELEN) IN
            IF Len(name) = 0
            THEN /\ out' = Said("add_process", "EmptyName")
                 /\ UNCHANGED <<n_proc, req, P>>
            ELSE IF NameTaken(P, n_proc, name)
            THEN /\ out' = Said("add_process", "DuplicateName")
                 /\ UNCHANGED <<n_proc, req, P>>
            ELSE /\ P' = [P EXCEPT ![n_proc] = strncpy(name, NAMELEN - 1)]
                 /\ req' = ClearReqRow(req, n_proc)
                 /\ n_proc' = n_proc + 1
                 /\ out' = Output("add_process", n_proc, -1, "Ok", {}, NoCycle)

AddResource(line) ==
    /\ UNCHANGED <<n_proc, req, P, detector>>
    /\ IF n_res >= MAX_RES
       THEN /\ out' = Said("add_resource", "CapacityExceeded")
            /\ UNCHANGED <<n_res, alloc_, R>>
       ELSE LET name == read_string(line, NAMELEN) IN
            IF Len(name) = 0
            THEN /\ out' = Said("add_resource", "EmptyName")
                 /\ UNCHANGED <<n_res, alloc_, R>>
            ELSE IF NameTaken(R, n_res, name)
            THEN /\ out' = Said("add_resource", "DuplicateName")
                 /\ UNCHANGED <<n_res, alloc_, R>>
            ELSE /\ R' = [R EXCEPT ![n_res] = strncpy(name, NAMELEN - 1)]
                 /\ alloc_' = ClearAllocRow(alloc_, n_res)
                 /\ n_res' = n_res + 1
                 /\ out' = Output("add_resource", n_res, -1, "Ok", {}, NoCycle)

(* add_request_edge without the req[p][r] test. *)
AddRequestEdgeUntested ==
    /\ UNCHANGED <<n_proc, n_res, alloc_, P, R, detector>>
    /\ IF n_proc = 0 \/ n_res = 0
       THEN /\ out' = Said("add_request_edge", "NeedProcessAndResource")
            /\ UNCHANGED req
       ELSE \E p \in read_int(0, n_proc - 1), r \in read_int(0, n_res - 1) :
            /\ req' = [req EXCEPT ![p][r] = 1]
            /\ out' = Output("add_request_edge", p, r, "Ok", {}, NoCycle)

AddRequestEdge ==
    /\ UNCHANGED <<n_proc, n_res, alloc_, P, R, detector>>
    /\ IF n_proc = 0 \/ n_res = 0
       THEN /\ out' = Said("add_request_edge", "NeedProcessAndResource")
            /\ UNCHANGED req
       ELSE \E p \in read_int(0, n_proc - 1), r \in read_int(0, n_res - 1) :
            IF req[p][r] # 0
            THEN /\ out' = Output("add_request_edge", p, r, "AlreadyExists", {}, NoCycle)
                 /\ UNCHANGED req
            ELSE /\ req' = [req EXCEPT ![p][r] = 1]
                 /\ out' = Output("add_request_edge", p, r, "Ok", {}, NoCycle)

(* The override warning left out. *)
OwnersUnreported(a, r, n) == {}

(* The processes the override loop of add_allocation_edge names in its     *)
(* warning: every live owner of r.                                         *)
Owners(a, r, n) == { pp \in 0 .. n - 1 : a[r][pp] # 0 }

(* The override loop left out: the old owner keeps its cell. *)
OverrideKeepsOwner(a, r, n) == a

(* The cells the override loop clears: every live cell of row r. *)
Override(a, r, n) ==
    [a EXCEPT ![r] = [pp \in Procs |-> IF pp < n THEN 0 ELSE a[r][pp]]]

AddAllocationEdge ==
    /\ UNCHANGED <<n_proc, n_res, req, P, R, detector>>
    /\ IF n_proc = 0 \/ n_res = 0
       THEN /\ out' = Said("add_allocation_edge", "NeedProcessAndResource")
            /\ UNCHANGED alloc_
       ELSE \E r \in read_int(0, n_res - 1), p \in read_int(0, n_proc - 1) :
            IF alloc_[r][p] # 0
            THEN /\ out' = Output("add_allocation_edge", r, p, "AlreadyExists", {}, NoCycle)
                 /\ UNCHANGED alloc_
            ELSE /\ alloc_' = [Override(alloc_, r, n_proc) EXCEPT ![r][p] = 1]
                 /\ out' = Output("add_allocation_edge", r, p, "Ok",
                                  Owners(alloc_, r, n_proc), NoCycle)

RemoveRequestEdge ==
    /\ UNCHANGED <<n_proc, n_res, alloc_, P, R, detector>>
    /\ IF n_proc = 0 \/ n_res = 0
       THEN /\ out' = Said("remove_request_edge", "Empty")
            /\ UNCHANGED req
       ELSE \E p \in read_int(0, n_proc - 1), r \in read_int(0, n_res - 1) :
            IF req[p][r] # 0
            THEN /\ req' = [req EXCEPT ![p][r] = 0]
                 /\ out' = Output("remove_request_edge", p, r, "Ok", {}, NoCycle)
            ELSE /\ out' = Output("remove_request_edge", p, r, "EdgeNotFound", {}, NoCycle)
                 /\ UNCHANGED req

(* remove_edges_menu, choice 2, testing "r has an owner" instead of         *)
(* alloc_[r][p]: the edge of another owner is removed.                     *)
RemoveAnyOwner ==
    /\ UNCHANGED <<n_proc, n_res, req, P, R, detector>>
    /\ IF n_proc = 0 \/ n_res = 0
       THEN /\ out' = Said("remove_allocation_edge", "Empty")
            /\ UNCHANGED alloc_
       ELSE \E r \in read_int(0, n_res - 1), p \in read_int(0, n_proc - 1) :
            IF \E pp \in Procs : alloc_[r][pp] # 0
            THEN /\ alloc_' = [alloc_ EXCEPT ![r] = [pp \in Procs |-> 0]]
                 /\ out' = Output("remove_allocation_edge", r, p, "Ok", {}, NoCycle)
            ELSE /\ out' = Output("remove_allocation_edge", r, p, "EdgeNotFound", {}, NoCycle)
                 /\ UNCHANGED alloc_

RemoveAllocationEdge ==
    /\ UNCHANGED <<n_proc, n_res, req, P, R, detector>>
    /\ IF n_proc = 0 \/ n_res = 0
       THEN /\ out' = Said("remove_allocation_edge", "Empty")
            /\ UNCHANGED alloc_
       ELSE \E r \in read_int(0, n_res - 1), p \in read_int(0, n_proc - 1) :
            IF alloc_[r][p] # 0
            THEN /\ alloc_' = [alloc_ EXCEPT ![r][p] = 0]
                 /\ out' = Output("remove_allocation_edge", r, p, "Ok", {}, NoCycle)
            ELSE /\ out' = Output("remove_allocation_edge", r, p, "EdgeNotFound", {}, NoCycle)
                 /\ UNCHANGED alloc_

RemoveCancel ==
    /\ out' = Said("remove_edges_menu", "Cancelled")
    /\ UNCHANGED <<store, detector>>

RemoveEdgesMenu ==
    \E ch \in read_int(1, 3) :
        IF ch = 1 THEN RemoveRequestEdge
        ELSE IF ch = 2 THEN RemoveAllocationEdge
        ELSE RemoveCancel

(* reset_graph without the memsets of req and alloc_ *)
ResetKeepsEdges ==
    /\ UNCHANGED <<req, alloc_>>
    /\ P' = ZeroP
    /\ R' = ZeroR
    /\ n_proc' = 0
    /\ n_res' = 0

(* reset_graph without n_res = 0 and the memset of R *)
ResetKeepsResources ==
    /\ req' = ZeroReq
    /\ alloc_' = ZeroAlloc
    /\ P' = ZeroP
    /\ n_proc' = 0
    /\ UNCHANGED <<R, n_res>>

(* memset of the four tables and both counts *)
ResetStore ==
    /\ req' = ZeroReq
    /\ alloc_' = ZeroAlloc
    /\ P' = ZeroP
    /\ R' = ZeroR
    /\ n_proc' = 0
    /\ n_res' = 0

ResetGraph ==
    /\ ResetStore
    /\ out' = Said("reset_graph", "Ok")
    /\ UNCHANGED detector

SampleNames(prefix, table, n) ==
    [i \in DOMAIN table |->
        IF i < n THEN strncpy(<<prefix, ToString(i)>>, NAMELEN) ELSE EmptyName]

SamplePrefill ==
    /\ P' = SampleNames("P", ZeroP, 3)
    /\ n_proc' = 3
    /\ R' = SampleNames("R", ZeroR, 2)
    /\ n_res' = 2
    /\ req' = [ZeroReq EXCEPT ![0][0] = 1, ![1][1] = 1]
    /\ alloc_' = [ZeroAlloc EXCEPT ![0][1] = 1, ![1][0] = 1]
    /\ out' = Said("sample_prefill", "Ok")
    /\ UNCHANGED detector

(* ---- Wait-For Graph ---- *)

(* The inner loop skipping p2 = p: a process never waits for itself. *)
SetWaitsOthers(g, p, r) ==
    [g EXCEPT ![p] = [p2 \in Procs |->
        IF p2 < n_proc /\ p2 # p /\ alloc_[r][p2] # 0 THEN 1 ELSE g[p][p2]]]

(* The innermost loop of build_wfg: every live owner p2 of r gets p -> p2. *)
SetWaits(g, p, r) ==
    [g EXCEPT ![p] = [p2 \in Procs |->
        IF p2 < n_proc /\ alloc_[r][p2] # 0 THEN 1 ELSE g[p][p2]]]

(* The two outer loops of build_wfg, from cell (p, r) on. *)
RECURSIVE BuildFrom(_, _, _)
BuildFrom(g, p, r) ==
    IF p >= n_proc THEN g
    ELSE IF r >= n_res THEN BuildFrom(g, p + 1, 0)
    ELSE BuildFrom(IF req[p][r] # 0 THEN SetWaits(g, p, r) ELSE g, p, r + 1)

(* build_wfg without the memset: the loops add to the previous graph. *)
build_wfg_on_old == BuildFrom(wfg, 0, 0)

(* memset(wfg, 0), then the loops *)
build_wfg == BuildFrom(ZeroWfg, 0, 0)

(* ---- cycle detector ---- *)

RECURSIVE ScanResources(_, _, _)
ScanResources(p, p2, r) ==
    IF r >= n_res THEN -1
    ELSE IF req[p][r] # 0 /\ alloc_[r][p2] # 0 THEN r
    ELSE ScanResources(p, p2, r + 1)

(* The scan taking the last match instead of the first. *)
RECURSIVE ScanResourcesDown(_, _, _)
ScanResourcesDown(p, p2, r) ==
    IF r < 0 THEN -1
    ELSE IF req[p][r] # 0 /\ alloc_[r][p2] # 0 THEN r
    ELSE ScanResourcesDown(p, p2, r - 1)

find_last_blocking_resource(p, p2) == ScanResourcesDown(p, p2, n_res - 1)

find_blocking_resource(p, p2) == ScanResources(p, p2, 0)

(* The whole stack taken as the cycle. *)
StackBottom(nodes, top, to, i) == 0

(* The first index j in i..top with nodes[j] = to, or -1. *)
RECURSIVE StackIndex(_, _, _, _)
StackIndex(nodes, top, to, i) ==
    IF i > top THEN -1
    ELSE IF nodes[i] = to THEN i
    ELSE StackIndex(nodes, top, to, i + 1)

(* The lines print_cycle_from_stack prints: one <<p, r, nextp>> per stack  *)
(* entry from idx to the top, r = -1 for "[resource unknown]".  `lost` is  *)
(* the "Cycle start not found" branch.                                     *)
print_cycle_from_stack(to, s) ==
    LET idx == StackIndex(s.stack_nodes, s.stack_top, to, 0)
        len == s.stack_top - idx + 1
    IN  IF idx = -1
        THEN [s EXCEPT !.lost = TRUE]
        ELSE [s EXCEPT !.cycle =
                [k \in 1 .. len |->
                    LET i == idx + k - 1
                        p == s.stack_nodes[i]
                        nextp == IF i < s.stack_top THEN s.stack_nodes[i + 1]
                                 ELSE s.stack_nodes[idx]
                    IN  <<p, find_blocking_resource(p, nextp), nextp>>]]

(* The push without in_stack[u] = 1. *)
PushUnmarked(s, u) ==
    [s EXCEPT !.visited[u] = 1,
              !.stack_nodes[s.stack_top + 1] = u, !.stack_top = @ + 1]

(* visited[u] = 1; in_stack[u] = 1; stack_nodes[++stack_top] = u *)
Push(s, u) ==
    [s EXCEPT !.visited[u] = 1, !.in_stack[u] = 1,
              !.stack_nodes[s.stack_top + 1] = u, !.stack_top = @ + 1]

(* The pop without --stack_top. *)
PopKeepsTop(s, u) == [s EXCEPT !.in_stack[u] = 0, !.ret = 0]

(* The pop without in_stack[u] = 0. *)
PopKeepsMark(s, u) == [s EXCEPT !.stack_top = @ - 1, !.ret = 0]

(* in_stack[u] = 0; --stack_top; return 0 *)
Pop(s, u) == [s EXCEPT !.in_stack[u] = 0, !.stack_top = @ - 1, !.ret = 0]

RECURSIVE dfs_cycle(_, _, _), dfs_edges(_, _, _, _)
dfs_cycle(g, u, s) == dfs_edges(g, u, 0, Push(s, u))

(* The for loop of dfs_cycle(u), from neighbour v on. *)
dfs_edges(g, u, v, s) ==
    IF v >= n_proc THEN Pop(s, u)
    ELSE IF g[u][v] = 0 THEN dfs_edges(g, u, v + 1, s)
    ELSE IF s.visited[v] = 0
         THEN LET t == dfs_cycle(g, v, s)
              IN  IF t.ret # 0 THEN t ELSE dfs_edges(g, u, v + 1, t)
    ELSE IF s.in_stack[v] # 0
         THEN [print_cycle_from_stack(v, s) EXCEPT !.ret = 1]
    ELSE dfs_edges(g, u, v + 1, s)

(* The root loop of detect_deadlock, from root i on; ret is `found`. *)
RECURSIVE dfs_roots(_, _, _)
dfs_roots(g, i, s) ==
    IF i >= n_proc THEN [s EXCEPT !.ret = 0]
    ELSE IF s.visited[i] = 0
         THEN LET t == dfs_cycle(g, i, s)
              IN  IF t.ret # 0 THEN t ELSE dfs_roots(g, i + 1, t)
    ELSE dfs_roots(g, i + 1, s)

(* detect_deadlock without the two memsets. *)
SearchOnOldMarks ==
    [visited |-> visited, in_stack |-> in_stack, stack_nodes |-> stack_nodes,
     stack_top |-> -1, ret |-> 0, cycle |-> NoCycle, lost |-> FALSE]

(* memset(visited), memset(in_stack), stack_top = -1; stack_nodes is kept. *)
FreshSearch ==
    [visited |-> ZeroFlags, in_stack |-> ZeroFlags, stack_nodes |-> stack_nodes,
     stack_top |-> -1, ret |-> 0, cycle |-> NoCycle, lost |-> FALSE]

(* detect_deadlock without the n_proc == 0 return. *)
DetectDeadlockUnguarded ==
    /\ UNCHANGED store
    /\ LET g == build_wfg
           s == dfs_roots(g, 0, FreshSearch)
       IN  /\ wfg' = g
           /\ visited' = s.visited
           /\ in_stack' = s.in_stack
           /\ stack_nodes' = s.stack_nodes
           /\ stack_top' = s.stack_top
           /\ run' = run
           /\ out' = Output("detect_deadlock", -1, -1,
                            IF s.ret = 0 THEN "NoDeadlock"
                            ELSE IF s.lost THEN "DeadlockCycleStartNotFound"
                            ELSE "Deadlock",
                            {}, s.cycle)

DetectDeadlock ==
    /\ UNCHANGED store
    /\ IF n_proc = 0
       THEN /\ out' = Said("detect_deadlock", "NoProcesses")
            /\ UNCHANGED detector
       ELSE LET g == build_wfg
                s == dfs_roots(g, 0, FreshSearch)
            IN  /\ wfg' = g
                /\ visited' = s.visited
                /\ in_stack' = s.in_stack
                /\ stack_nodes' = s.stack_nodes
                /\ stack_top' = s.stack_top
                /\ run' = run
                /\ out' = Output("detect_deadlock", -1, -1,
                                 IF s.ret = 0 THEN "NoDeadlock"
                                 ELSE IF s.lost THEN "DeadlockCycleStartNotFound"
                                 ELSE "Deadlock",
                                 {}, s.cycle)

(* ---- detect_deadlock, one loop iteration at a time ---- *)

(* The detector's globals as the record the operators above work on. *)
Globals ==
    [visited |-> visited, in_stack |-> in_stack, stack_nodes |-> stack_nodes,
     stack_top |-> stack_top, ret |-> 0, cycle |-> NoCycle, lost |-> FALSE]

StoreGlobals(s) ==
    /\ visited' = s.visited
    /\ in_stack' = s.in_stack
    /\ stack_nodes' = s.stack_nodes
    /\ stack_top' = s.stack_top

(* The start of detect_deadlock without the two memsets. *)
BeginSearchOnOldMarks ==
    /\ run.pc = "idle"
    /\ UNCHANGED store
    /\ IF n_proc = 0
       THEN /\ out' = Said("detect_deadlock", "NoProcesses")
            /\ UNCHANGED detector
       ELSE /\ wfg' = build_wfg
            /\ StoreGlobals(SearchOnOldMarks)
            /\ run' = [NoRun EXCEPT !.pc = "roots"]
            /\ out' = out

(* detect_deadlock up to the root loop. *)
BeginSearch ==
    /\ run.pc = "idle"
    /\ UNCHANGED store
    /\ IF n_proc = 0
       THEN /\ out' = Said("detect_deadlock", "NoProcesses")
            /\ UNCHANGED detector
       ELSE /\ wfg' = build_wfg
            /\ StoreGlobals(FreshSearch)
            /\ run' = [NoRun EXCEPT !.pc = "roots"]
            /\ out' = out

(* The root loop taking the roots from n_proc - 1 down to 0. *)
RootStepDescending ==
    /\ run.pc = "roots"
    /\ UNCHANGED <<store, wfg>>
    /\ IF run.i >= n_proc
       THEN /\ out' = Said("detect_deadlock", "NoDeadlock")
            /\ run' = NoRun
            /\ UNCHANGED <<visited, in_stack, stack_nodes, stack_top>>
       ELSE IF visited[n_proc - 1 - run.i] = 0
       THEN /\ StoreGlobals(Push(Globals, n_proc - 1 - run.i))
            /\ run' = [run EXCEPT !.pc = "dfs", !.v[stack_top + 1] = 0]
            /\ out' = out
       ELSE /\ run' = [run EXCEPT !.i = @ + 1]
            /\ UNCHANGED <<visited, in_stack, stack_nodes, stack_top, out>>

(* One iteration of the root loop of detect_deadlock: the end of the loop  *)
(* (found = 0), the call dfs_cycle(i) up to its loop, or the next root.    *)
RootStep ==
    /\ run.pc = "roots"
    /\ UNCHANGED <<store, wfg>>
    /\ IF run.i >= n_proc
       THEN /\ out' = Said("detect_deadlock", "NoDeadlock")
            /\ run' = NoRun
            /\ UNCHANGED <<visited, in_stack, stack_nodes, stack_top>>
       ELSE IF visited[run.i] = 0
       THEN /\ StoreGlobals(Push(Globals, run.i))
            /\ run' = [run EXCEPT !.pc = "dfs", !.v[stack_top + 1] = 0]
            /\ out' = out
       ELSE /\ run' = [run EXCEPT !.i = @ + 1]
            /\ UNCHANGED <<visited, in_stack, stack_nodes, stack_top, out>>

(* `continue` in the loop of the dfs_cycle call on top of the stack. *)
NextNeighbour == [run EXCEPT !.v[stack_top] = @ + 1]

(* One iteration of the loop of the dfs_cycle call on top of the stack:    *)
(* the end of the loop (pop, return 0 to the caller, whose loop goes on),  *)
(* the call dfs_cycle(v) up to its loop, the back edge (print the cycle,   *)
(* return 1 through every caller, break), or the next neighbour.           *)
EdgeStep ==
    /\ run.pc = "dfs"
    /\ UNCHANGED <<store, wfg>>
    /\ LET u == stack_nodes[stack_top]
           v == run.v[stack_top]
       IN  IF v >= n_proc
           THEN /\ StoreGlobals(Pop(Globals, u))
                /\ run' = IF stack_top = 0
                          THEN [NoRun EXCEPT !.pc = "roots", !.i = run.i + 1]
                          ELSE [run EXCEPT !.v[stack_top] = 0,
                                           !.v[stack_top - 1] = @ + 1]
                /\ out' = out
           ELSE IF wfg[u][v] = 0
           THEN /\ run' = NextNeighbour
                /\ UNCHANGED <<visited, in_stack, stack_nodes, stack_top, out>>
           ELSE IF visited[v] = 0
           THEN /\ StoreGlobals(Push(Globals, v))
                /\ run' = [run EXCEPT !.v[stack_top + 1] = 0]
                /\ out' = out
           ELSE IF in_stack[v] # 0
           THEN /\ LET s == print_cycle_from_stack(v, Globals)
                   IN  out' = Output("detect_deadlock", -1, -1,
                                     IF s.lost THEN "DeadlockCycleStartNotFound"
                                     ELSE "Deadlock",
                                     {}, s.cycle)
                /\ run' = NoRun
                /\ UNCHANGED <<visited, in_stack, stack_nodes, stack_top>>
           ELSE /\ run' = NextNeighbour
                /\ UNCHANGED <<visited, in_stack, stack_nodes, stack_top, out>>

(* The menu loop of main takes the next choice when the handler of the     *)
(* last one has returned.                                                  *)
MenuSamplePrefill == run.pc = "idle" /\ SamplePrefill

MenuResetGraph == run.pc = "idle" /\ ResetGraph

(* ---- the draft detector (DFS over the combined graph) ---- *)

(* The draft's nodes: the processes first, then the resources, as          *)
(* addProcess / addResource number them.                                   *)
nodeCount == n_proc + n_res

Nodes == 0 .. nodeCount - 1

(* addEdge(p, resource r) for every request, addEdge(resource r, p) for    *)
(* every allocation.                                                       *)
graph ==
    [a \in Nodes |-> [b \in Nodes |->
        IF a < n_proc /\ b >= n_proc /\ req[a][b - n_proc] # 0 THEN 1
        ELSE IF a >= n_proc /\ b < n_proc /\ alloc_[a - n_proc][b] # 0 THEN 1
        ELSE 0]]

(* visited[node] = true; recStack[node] = true *)
DraftEnter(s, node) == [s EXCEPT !.visited[node] = TRUE, !.recStack[node] = TRUE]

(* The return without recStack[node] = false. *)
DraftLeaveMarked(s, node) == [s EXCEPT !.ret = FALSE]

(* recStack[node] = false; return false *)
DraftLeave(s, node) == [s EXCEPT !.recStack[node] = FALSE, !.ret = FALSE]

RECURSIVE dfs(_, _), dfs_next(_, _, _)
dfs(node, s) == dfs_next(node, 0, DraftEnter(s, node))

(* The for loop of the draft's dfs(node), from `next` on. *)
dfs_next(node, next, s) ==
    IF next >= nodeCount THEN DraftLeave(s, node)
    ELSE IF graph[node][next] # 1 THEN dfs_next(node, next + 1, s)
    ELSE LET t == IF ~s.visited[next] THEN dfs(next, s) ELSE [s EXCEPT !.ret = FALSE]
         IN  IF t.ret THEN t
             ELSE IF t.recStack[next] THEN [t EXCEPT !.ret = TRUE]
             ELSE dfs_next(node, next + 1, t)

(* The second loop of the draft's detectDeadlock, from node i on. *)
RECURSIVE DraftRoots(_, _)
DraftRoots(i, s) ==
    IF i >= nodeCount THEN FALSE
    ELSE IF ~s.visited[i]
         THEN LET t == dfs(i, s)
              IN  IF t.ret THEN TRUE ELSE DraftRoots(i + 1, t)
    ELSE DraftRoots(i + 1, s)

(* TRUE for "Deadlock detected!", FALSE for "No deadlock." *)
detectDeadlock ==
    DraftRoots(0, [visited |-> [i \in Nodes |-> FALSE],
                   recStack |-> [i \in Nodes |-> FALSE], ret |-> FALSE])

(* ---- specifications ---- *)

(* The RAG store under its handlers.  detect_deadlock writes none of the   *)
(* store's variables; it is checked under DetectSpec.                      *)
Next ==
    \/ \E line \in Lines : AddProcess(line)
    \/ \E line \in Lines : AddResource(line)
    \/ AddRequestEdge
    \/ AddAllocationEdge
    \/ RemoveEdgesMenu
    \/ ResetGraph
    \/ SamplePrefill

Spec == Init /\ [][Next]_vars

(* Detection, run on every store the handlers above can build (any counts  *)
(* up to the capacities, any request edges between live ids, at most one   *)
(* owner per live resource), and run again after the two handlers that     *)
(* replace the whole store, so that a run also starts from what an earlier *)
(* run left in wfg, visited, in_stack, stack_nodes and stack_top.          *)
DetectInit ==
    /\ \E np \in 0 .. MAX_PROC, nr \in 0 .. MAX_RES :
       \E S \in SUBSET ((0 .. np - 1) \X (0 .. nr - 1)),
          owner \in [0 .. nr - 1 -> -1 .. np - 1] :
          /\ n_proc = np
          /\ n_res = nr
          /\ req = [p \in Procs |-> [r \in Ress |-> IF <<p, r>> \in S THEN 1 ELSE 0]]
          /\ alloc_ = [r \in Ress |-> [p \in Procs |->
                          IF r < nr /\ owner[r] = p THEN 1 ELSE 0]]
          /\ P = SampleNames("P", ZeroP, np)
          /\ R = SampleNames("R", ZeroR, nr)
    /\ wfg = ZeroWfg
    /\ visited = ZeroFlags
    /\ in_stack = ZeroFlags
    /\ stack_nodes = ZeroFlags
    /\ stack_top = 0
    /\ run = NoRun
    /\ out = Said("main", "Ok")

DetectNext ==
    \/ DetectDeadlock
    \/ SamplePrefill
    \/ ResetGraph

DetectSpec == DetectInit /\ [][DetectNext]_vars

(* Detection one loop iteration at a time, on the stores of DetectInit. *)
SearchNext ==
    \/ BeginSearch
    \/ RootStep
    \/ EdgeStep
    \/ MenuSamplePrefill
    \/ MenuResetGraph

SearchSpec == DetectInit /\ [][SearchNext]_vars

(* detect_deadlock runs to its return: nothing else runs in the program.   *)
FairSearchSpec == SearchSpec /\ WF_vars(RootStep) /\ WF_vars(EdgeStep)

(* ---- properties of the RAG store (checked under Spec) ---- *)

OwnersOf(r) == { p \in Procs : alloc_[r][p] # 0 }

(* C1: in every reachable state every resource has at most one allocation  *)
(* edge.                                                                   *)
SingleOwner == \A r \in Ress : Cardinality(OwnersOf(r)) <= 1

(* add_allocation_edge has just installed an edge while every resource     *)
(* has an owner.                                                           *)
SingleOwnerWitness ==
    /\ out.op = "add_allocation_edge"
    /\ out.result = "Ok"
    /\ n_res = MAX_RES
    /\ \A r \in Ress : OwnersOf(r) # {}

(* C2: every request edge and every allocation edge joins a live process   *)
(* id and a live resource id; no cell outside the live ranges is set.      *)
ReferentialIntegrity ==
    \A p \in Procs, r \in Ress :
        (req[p][r] # 0 \/ alloc_[r][p] # 0) => (p < n_proc /\ r < n_res)

(* Edges of both kinds exist while the tables are not full: ids above the  *)
(* counts are dead.                                                        *)
ReferentialIntegrityWitness ==
    /\ n_proc = 1
    /\ n_res = 1
    /\ req[0][0] = 1
    /\ alloc_[0][0] = 1
    /\ P[0] = <<"P", "0">>
    /\ out.op = "add_request_edge"

(* C7: add_allocation_edge(r, p) while r is allocated to another process q *)
(* succeeds, removes (r, q), adds (r, p), names q as the superseded owner  *)
(* and changes no request edge and no allocation edge of another resource. *)
Supersede ==
    [][\A r \in Ress, p \in Procs, q \in Procs :
          ( /\ out'.op = "add_allocation_edge"
            /\ out'.a = r
            /\ out'.b = p
            /\ q # p
            /\ q < n_proc
            /\ alloc_[r][q] # 0 )
          => /\ out'.result = "Ok"
             /\ alloc_'[r][q] = 0
             /\ alloc_'[r][p] = 1
             /\ out'.superseded = {q}
             /\ \A r2 \in Ress \ {r} : alloc_'[r2] = alloc_[r2]
             /\ UNCHANGED <<req, n_proc, n_res, P, R>>]_vars

SupersedeWitness ==
    /\ out.op = "add_allocation_edge"
    /\ out.result = "Ok"
    /\ out.superseded # {}
    /\ alloc_[out.a][out.b] = 1

(* The name add_process / add_resource would work with, and whether a      *)
(* live entry of the table already carries it.                             *)
TypedName(line) == read_string(line, NAMELEN)
Carries(table, n, line) == \E i \in 0 .. n - 1 : table[i] = TypedName(line)

NamesUnique ==
    /\ \A i, j \in 0 .. n_proc - 1 : P[i] = P[j] => i = j
    /\ \A i, j \in 0 .. n_res - 1 : R[i] = R[j] => i = j
    /\ \A i \in 0 .. n_proc - 1 : P[i] # EmptyName
    /\ \A i \in 0 .. n_res - 1 : R[i] # EmptyName

(* C8 as stated: add_process (add_resource) with a name an existing        *)
(* process (resource) carries answers DuplicateName and changes nothing;   *)
(* names are unique in every reachable state.                              *)
DuplicateAlwaysRejected ==
    /\ []NamesUnique
    /\ [][\A line \in Lines :
            /\ (AddProcess(line) /\ Carries(P, n_proc, line))
               => (out'.result = "DuplicateName" /\ UNCHANGED store)
            /\ (AddResource(line) /\ Carries(R, n_res, line))
               => (out'.result = "DuplicateName" /\ UNCHANGED store)]_vars

(* C8, amended: below the capacity a carried name is answered with         *)
(* DuplicateName; at the capacity the answer is CapacityExceeded whatever  *)
(* the name; either way the store is unchanged, and names stay unique.     *)
DuplicateRejected ==
    /\ []NamesUnique
    /\ [][\A line \in Lines :
            /\ (AddProcess(line) /\ Carries(P, n_proc, line))
               => /\ out'.result = IF n_proc < MAX_PROC THEN "DuplicateName"
                                   ELSE "CapacityExceeded"
                  /\ UNCHANGED store
            /\ (AddResource(line) /\ Carries(R, n_res, line))
               => /\ out'.result = IF n_res < MAX_RES THEN "DuplicateName"
                                   ELSE "CapacityExceeded"
                  /\ UNCHANGED store]_vars

(* add_process has just refused a line whose first NAMELEN-1 characters    *)
(* are the name of the only process.                                       *)
DuplicateRejectedWitness ==
    /\ out.op = "add_process"
    /\ out.result = "DuplicateName"
    /\ n_proc = 1
    /\ Len(P[0]) = NAMELEN - 1

(* C9: removing a request edge or an allocation edge that is not present   *)
(* (also an allocation edge (r, p) while r belongs to another process)     *)
(* answers EdgeNotFound and changes nothing in the store.                  *)
RemoveAbsent ==
    [][\A p \in Procs, r \in Ress :
          /\ ( out'.op = "remove_request_edge" /\ out'.a = p /\ out'.b = r
               /\ req[p][r] = 0 )
             => (out'.result = "EdgeNotFound" /\ UNCHANGED store)
          /\ ( out'.op = "remove_allocation_edge" /\ out'.a = r /\ out'.b = p
               /\ alloc_[r][p] = 0 )
             => (out'.result = "EdgeNotFound" /\ UNCHANGED store)]_vars

(* remove_allocation_edge(r, p) has just been refused while r belongs to   *)
(* another process.                                                        *)
RemoveAbsentWitness ==
    /\ out.op = "remove_allocation_edge"
    /\ out.result = "EdgeNotFound"
    /\ OwnersOf(out.a) # {}
    /\ out.b \notin OwnersOf(out.a)

(* C10: reset_graph can always run and leaves no process, no resource and  *)
(* no edge; a process or resource added afterwards has no incident edge.   *)
ResetClears ==
    /\ ENABLED ResetGraph
    /\ out.op = "reset_graph" =>
          /\ out.result = "Ok"
          /\ n_proc = 0
          /\ n_res = 0
          /\ req = ZeroReq
          /\ alloc_ = ZeroAlloc
          /\ P = ZeroP
          /\ R = ZeroR
    /\ (out.op = "add_process" /\ out.result = "Ok") =>
          \A r \in Ress : req[out.a][r] = 0 /\ alloc_[r][out.a] = 0
    /\ (out.op = "add_resource" /\ out.result = "Ok") =>
          \A p \in Procs : req[p][out.a] = 0 /\ alloc_[out.a][p] = 0

(* A resource has just been added to a store that already has processes    *)
(* with request edges to another resource.                                 *)
ResetClearsWitness ==
    /\ out.op = "add_resource"
    /\ out.result = "Ok"
    /\ out.a = 1
    /\ n_proc = 2
    /\ req[0][0] = 1
    /\ req[1][0] = 1
    /\ alloc_[0][1] = 1

(* C11: add_request_edge(p, r) on a present edge and                        *)
(* add_allocation_edge(r, p) on a resource already allocated to p answer   *)
(* AlreadyExists and change nothing; otherwise add_request_edge sets       *)
(* exactly the cell (p, r).                                                *)
AlreadyExistsRefused ==
    [][\A p \in Procs, r \in Ress :
          /\ (out'.op = "add_request_edge" /\ out'.a = p /\ out'.b = r)
             => IF req[p][r] # 0
                THEN out'.result = "AlreadyExists" /\ UNCHANGED <<store, detector>>
                ELSE /\ out'.result = "Ok"
                     /\ req'[p][r] = 1
                     /\ \A p2 \in Procs, r2 \in Ress :
                           <<p2, r2>> # <<p, r>> => req'[p2][r2] = req[p2][r2]
                     /\ UNCHANGED <<n_proc, n_res, alloc_, P, R, detector>>
          /\ ( out'.op = "add_allocation_edge" /\ out'.a = r /\ out'.b = p
               /\ alloc_[r][p] # 0 )
             => (out'.result = "AlreadyExists" /\ UNCHANGED <<store, detector>>)]_vars

(* Both refusals: an allocation edge has just been refused while the same  *)
(* process also requests the resource.                                     *)
AlreadyExistsRefusedWitness ==
    /\ out.op = "add_allocation_edge"
    /\ out.result = "AlreadyExists"
    /\ alloc_[out.a][out.b] = 1
    /\ req[out.b][out.a] = 1

(* C15: with a full table add_process / add_resource answer               *)
(* CapacityExceeded and change nothing; the counts never pass MAX_PROC and *)
(* MAX_RES; a successful add prints the previous count as the new id and   *)
(* leaves every existing entry where it was.                               *)
CapacityKept ==
    /\ [](n_proc <= MAX_PROC /\ n_res <= MAX_RES)
    /\ [][/\ (out'.op = "add_process" /\ n_proc >= MAX_PROC)
             => (out'.result = "CapacityExceeded" /\ UNCHANGED <<store, detector>>)
          /\ (out'.op = "add_resource" /\ n_res >= MAX_RES)
             => (out'.result = "CapacityExceeded" /\ UNCHANGED <<store, detector>>)
          /\ (out'.op = "add_process" /\ out'.result = "Ok")
             => /\ out'.a = n_proc
                /\ n_proc' = n_proc + 1
                /\ P'[n_proc] # EmptyName
                /\ \A i \in 0 .. n_proc - 1 : P'[i] = P[i]
                /\ UNCHANGED <<n_res, R>>
          /\ (out'.op = "add_resource" /\ out'.result = "Ok")
             => /\ out'.a = n_res
                /\ n_res' = n_res + 1
                /\ R'[n_res] # EmptyName
                /\ \A i \in 0 .. n_res - 1 : R'[i] = R[i]
                /\ UNCHANGED <<n_proc, P>>]_vars

(* add_resource has just been refused with both typed names in the table. *)
CapacityKeptWitness ==
    /\ out.op = "add_resource"
    /\ out.result = "CapacityExceeded"
    /\ n_res = MAX_RES
    /\ R[0] = <<"P", "0">>

(* ---- properties of detection (checked under DetectSpec) ---- *)

Live == 0 .. n_proc - 1

(* p waits for p2: some live resource is requested by p and held by p2. *)
Blocking(p, p2) == { r \in 0 .. n_res - 1 : req[p][r] # 0 /\ alloc_[r][p2] # 0 }

Detected == out.op = "detect_deadlock" /\ out.result # "NoProcesses"

Reported == Detected /\ out.result # "NoDeadlock"

(* C3: after build_wfg the graph has the edge p -> p2 exactly when some     *)
(* resource is requested by p and allocated to p2, whatever an earlier     *)
(* build left in wfg.                                                      *)
WfgExact ==
    Detected =>
        \A p, p2 \in Procs :
            (wfg[p][p2] # 0) <=> (p \in Live /\ p2 \in Live /\ Blocking(p, p2) # {})

(* A run on a graph in which P2 waits for nobody, two processes wait, and  *)
(* one of them waits through resource 1 only.                              *)
WfgExactWitness ==
    /\ Detected
    /\ n_proc = 3
    /\ \A q \in Procs : wfg[2][q] = 0
    /\ wfg[0][1] = 1
    /\ wfg[1][2] = 1
    /\ Blocking(1, 2) = {1}

(* The processes reachable from the set S along edges of g. *)
RECURSIVE ReachableFrom(_, _)
ReachableFrom(g, S) ==
    LET T == S \cup { q \in Live : \E p \in S : g[p][q] # 0 }
    IN  IF T = S THEN S ELSE ReachableFrom(g, T)

Successors(g, p) == { q \in Live : g[p][q] # 0 }

HasCycle(g) == \E p \in Live : p \in ReachableFrom(g, Successors(g, p))

(* C4: with at least one process, detection reports a deadlock exactly     *)
(* when the Wait-For Graph has a directed cycle, self-loops included.      *)
DeadlockIffCycle == Detected => ((out.result # "NoDeadlock") <=> HasCycle(wfg))

(* A run that found nothing in the chain P0 -> P1 -> P2. *)
DeadlockIffCycleWitness ==
    /\ Detected
    /\ out.result = "NoDeadlock"
    /\ wfg[0][1] = 1
    /\ wfg[1][2] = 1

CycleLen == Len(out.cycle)

(* C5: a reported cycle is the run of the traversal stack from the         *)
(* revisited node's position to the top: found in the stack, its           *)
(* processes distinct and marked ON_STACK, every consecutive pair and the  *)
(* closing pair an edge of the Wait-For Graph.                             *)
CycleFromStack ==
    Reported =>
        /\ out.result = "Deadlock"
        /\ CycleLen >= 1
        /\ CycleLen <= stack_top + 1
        /\ stack_top < n_proc
        /\ \A k \in 1 .. CycleLen :
              /\ out.cycle[k][1] = stack_nodes[stack_top - CycleLen + k]
              /\ out.cycle[k][3] = out.cycle[IF k < CycleLen THEN k + 1 ELSE 1][1]
              /\ out.cycle[k][1] \in Live
              /\ in_stack[out.cycle[k][1]] # 0
              /\ wfg[out.cycle[k][1]][out.cycle[k][3]] # 0
        /\ \A j, k \in 1 .. CycleLen : out.cycle[j][1] = out.cycle[k][1] => j = k

(* A cycle of two processes that starts above the bottom of the stack:     *)
(* P0 -> P1 -> P2 -> P1.                                                   *)
CycleFromStackWitness ==
    /\ Reported
    /\ stack_top = 2
    /\ CycleLen = 2
    /\ out.cycle[1][1] = 1
    /\ out.cycle[2][1] = 2

(* C6: every pair (p, nextp) of a reported cycle carries a witness         *)
(* resource, the lowest-id resource that p requests and nextp holds;       *)
(* "[resource unknown]" (-1) is never printed.                             *)
LowestWitness ==
    Reported =>
        \A k \in 1 .. CycleLen :
            LET p == out.cycle[k][1]
                r == out.cycle[k][2]
                nextp == out.cycle[k][3]
            IN  /\ r # -1
                /\ r \in Blocking(p, nextp)
                /\ \A r2 \in Blocking(p, nextp) : r <= r2

(* A reported pair that two resources could justify. *)
LowestWitnessWitness ==
    /\ Reported
    /\ \E k \in 1 .. CycleLen :
          Cardinality(Blocking(out.cycle[k][1], out.cycle[k][3])) >= 2

SampleEdges ==
    /\ n_proc >= 2
    /\ n_res = 2
    /\ \A p \in Procs, r \in Ress :
          /\ (req[p][r] # 0) <=> (<<p, r>> \in {<<0, 0>>, <<1, 1>>})
          /\ (alloc_[r][p] # 0) <=> (<<r, p>> \in {<<0, 1>>, <<1, 0>>})

CycleLines == { out.cycle[k] : k \in 1 .. CycleLen }

(* C12: with requests {(P0,R0), (P1,R1)} and allocations {(R0,P1),          *)
(* (R1,P0)} the Wait-For Graph is exactly P0 -> P1, P1 -> P0 and the       *)
(* reported cycle holds P0 and P1, with R0 for P0 -> P1 and R1 for         *)
(* P1 -> P0.                                                               *)
SampleDeadlock ==
    (Detected /\ SampleEdges) =>
        /\ \A p, q \in Procs : (wfg[p][q] # 0) <=> (<<p, q>> \in {<<0, 1>>, <<1, 0>>})
        /\ out.result = "Deadlock"
        /\ CycleLen = 2
        /\ CycleLines = {<<0, 0, 1>>, <<1, 1, 0>>}

(* Detection has run on the graph sample_prefill loads. *)
SampleDeadlockWitness ==
    /\ Detected
    /\ SampleEdges
    /\ n_proc = 3
    /\ P = SampleNames("P", ZeroP, 3)
    /\ R = SampleNames("R", ZeroR, 2)

(* g without the edge p -> p *)
WithoutSelf(g, p) == [g EXCEPT ![p][p] = 0]

Lowest(S) == CHOOSE r \in S : \A r2 \in S : r <= r2

NoProcessesQuiet ==
    [][(out'.op = "detect_deadlock" /\ n_proc = 0)
          => /\ out'.result = "NoProcesses"
             /\ out'.cycle = NoCycle
             /\ UNCHANGED <<store, detector>>]_vars

(* Detection on the empty store after a run that ended on a cycle and left *)
(* its marks behind.                                                       *)
NoProcessesQuietWitness ==
    /\ out.op = "detect_deadlock"
    /\ out.result = "NoProcesses"
    /\ n_proc = 0
    /\ in_stack # ZeroFlags
    /\ wfg # ZeroWfg

(* A run started from all-zero detector variables. *)
FromScratch ==
    dfs_roots(BuildFrom(ZeroWfg, 0, 0), 0,
              [visited |-> ZeroFlags, in_stack |-> ZeroFlags,
               stack_nodes |-> ZeroFlags, stack_top |-> -1,
               ret |-> 0, cycle |-> NoCycle, lost |-> FALSE])

(* C18: what a run reports and leaves behind is what a run from all-zero   *)
(* detector variables gives on the same edges, whatever earlier runs left  *)
(* in wfg, visited, in_stack and the stack; and a run changes nothing in   *)
(* the store.                                                              *)
RunDependsOnEdgesOnly ==
    /\ [](Detected =>
            /\ wfg = BuildFrom(ZeroWfg, 0, 0)
            /\ visited = FromScratch.visited
            /\ in_stack = FromScratch.in_stack
            /\ stack_top = FromScratch.stack_top
            /\ \A k \in 0 .. stack_top : stack_nodes[k] = FromScratch.stack_nodes[k]
            /\ out.cycle = FromScratch.cycle
            /\ (out.result = "NoDeadlock") <=> (FromScratch.ret = 0)
            /\ (out.result = "Deadlock") <=> (FromScratch.ret # 0))
    /\ [][out'.op = "detect_deadlock" => UNCHANGED store]_vars

(* A run on the sample edges (two pushes) over a stack in which an earlier *)
(* run left a third entry.                                                 *)
RunDependsOnEdgesOnlyWitness ==
    /\ Detected
    /\ SampleEdges
    /\ stack_top = 1
    /\ stack_nodes[2] = 2
    /\ P = SampleNames("P", ZeroP, 3)

(* C20: the draft detector, run on the combined graph (request p -> r,     *)
(* allocation r -> p), reports a deadlock exactly when detect_deadlock     *)
(* does.                                                                   *)
DraftAgrees ==
    out.op = "detect_deadlock" =>
        (detectDeadlock <=> out.result \in {"Deadlock", "DeadlockCycleStartNotFound"})

(* No deadlock, with P1 reached from P0 through two resources: the draft   *)
(* meets the node P1 twice.                                                *)
DraftAgreesWitness ==
    /\ Detected
    /\ out.result = "NoDeadlock"
    /\ Cardinality(Blocking(0, 1)) = 2
    /\ ~detectDeadlock

(* ---- properties of a run in progress (checked under SearchSpec) ---- *)

Running == run.pc # "idle"

(* A run has just returned (the handlers after it write out). *)
Returned == ~Running /\ out.op = "detect_deadlock" /\ out.result # "NoProcesses"

State(p) ==
    IF visited[p] = 0 THEN "UNVISITED"
    ELSE IF in_stack[p] # 0 THEN "ON_STACK"
    ELSE "DONE"

(* The step that ends a run with a report. *)
ReportStep == Running /\ ~Running' /\ out'.result # "NoDeadlock"

(* C16: in a run a process only moves UNVISITED -> ON_STACK -> DONE, one   *)
(* move per step; the run starts with every process UNVISITED; a run that  *)
(* ends without a cycle leaves every process DONE and the stack empty; a   *)
(* run ends otherwise only on an edge from the top of the stack to an      *)
(* ON_STACK process.                                                       *)
ProcessLifecycle ==
    /\ [][Running =>
            \A p \in Procs :
               \/ State(p)' = State(p)
               \/ State(p) = "UNVISITED" /\ State(p)' = "ON_STACK"
               \/ State(p) = "ON_STACK" /\ State(p)' = "DONE"]_vars
    /\ [][(~Running /\ Running') =>
            /\ \A p \in Procs : State(p)' = "UNVISITED"
            /\ stack_top' = -1]_vars
    /\ []((Returned /\ out.result = "NoDeadlock") =>
            /\ \A p \in Live : State(p) = "DONE"
            /\ stack_top = -1)
    /\ [][ReportStep =>
            /\ stack_top >= 0
            /\ \E v \in Live : /\ v = run.v[stack_top]
                               /\ wfg[stack_nodes[stack_top]][v] # 0
                               /\ State(v) = "ON_STACK"
            /\ UNCHANGED <<visited, in_stack, stack_nodes, stack_top>>]_vars

(* A run without a cycle in which the three processes were on the stack    *)
(* together has returned.                                                  *)
ProcessLifecycleWitness ==
    /\ Returned
    /\ out.result = "NoDeadlock"
    /\ n_proc = 3
    /\ wfg[0][1] # 0
    /\ wfg[1][2] # 0
    /\ stack_nodes[2] = 2

(* Some cycle of the Wait-For Graph can be reached from p. *)
CycleReachable(p) ==
    \E q \in ReachableFrom(wfg, {p}) : q \in ReachableFrom(wfg, Successors(wfg, q))

(* C17: the run returns on the first cycle in search order: at the report  *)
(* the root in progress is the least process from which a cycle can be     *)
(* reached and every smaller root is DONE; in every call on the stack the  *)
(* neighbours before the current one are DONE; nothing is reported before  *)
(* the run's last step, which reports one cycle.                           *)
FirstCycle ==
    /\ [][ReportStep =>
            /\ stack_nodes[0] = run.i
            /\ CycleReachable(run.i)
            /\ \A p \in Live : p < run.i => (State(p) = "DONE" /\ ~CycleReachable(p))
            /\ out'.result = "Deadlock"
            /\ Len(out'.cycle) >= 1
            /\ out'.cycle[1][1] = run.v[stack_top]]_vars
    /\ [](run.pc = "dfs" =>
            \A k \in 0 .. stack_top : \A v2 \in Live :
               (v2 < run.v[k] /\ wfg[stack_nodes[k]][v2] # 0) => State(v2) = "DONE")
    /\ [](Running => \A p \in Live : p < run.i => State(p) = "DONE")
    /\ [][Running' => out' = out]_vars

(* A cycle reported from root P1 after root P0 was explored to DONE. *)
FirstCycleWitness ==
    /\ Returned
    /\ out.result = "Deadlock"
    /\ stack_nodes[0] = 1
    /\ stack_top = 1
    /\ State(0) = "DONE"

OnStack == { p \in Procs : in_stack[p] # 0 }

Held == { stack_nodes[k] : k \in 0 .. stack_top }

(* C19: every run returns; a process is pushed only while unvisited and    *)
(* stays visited to the end of the run (one push per run); stack_top stays *)
(* within -1 .. n_proc - 1; the processes marked in_stack are the entries  *)
(* of the stack, each held once.                                           *)
RunTerminates ==
    /\ []((Running \/ Returned) =>
            /\ stack_top \in -1 .. n_proc - 1
            /\ OnStack = Held
            /\ Cardinality(Held) = stack_top + 1)
    /\ [][(Running /\ stack_top' > stack_top) =>
            /\ stack_top' = stack_top + 1
            /\ stack_nodes'[stack_top'] \in Live
            /\ visited[stack_nodes'[stack_top']] = 0
            /\ visited'[stack_nodes'[stack_top']] = 1]_vars
    /\ [][Running => \A p \in Procs : visited[p] # 0 => visited'[p] # 0]_vars
    /\ Running ~> ~Running

(* The stack at its full height during a run. *)
RunTerminatesWitness ==
    /\ Running
    /\ n_proc = MAX_PROC
    /\ stack_top = MAX_PROC - 1

(* The run taken one iteration at a time returns what the operators of     *)
(* DetectDeadlock compute.                                                 *)
StepsAgree ==
    [][(Running /\ ~Running') =>
          /\ wfg = BuildFrom(ZeroWfg, 0, 0)
          /\ visited' = FromScratch.visited
          /\ in_stack' = FromScratch.in_stack
          /\ stack_top' = FromScratch.stack_top
          /\ \A k \in 0 .. stack_top' : stack_nodes'[k] = FromScratch.stack_nodes[k]
          /\ out'.cycle = FromScratch.cycle
          /\ (out'.result = "NoDeadlock") <=> (FromScratch.ret = 0)]_vars

====
